---- MODULE Spec2Model ----
(***************************************************************************)
(* Kokoros text-to-speech core: the chunker, the style store and the       *)
(* batch / streaming synthesis loops of kokoros/src/tts/koko.rs, with the  *)
(* process-wide phonemizer lock and the per-instance inference lock.       *)
(*                                                                         *)
(* A string is a sequence of one-character strings.  A request is one      *)
(* call of tts_raw_audio or tts_raw_audio_streaming running on its own     *)
(* execution context.                                                      *)
(***************************************************************************)
EXTENDS Integers, Sequences, FiniteSets, TLC

VARIABLES
    espeak_mutex,   \* holder of ESPEAK_MUTEX (a request id), 0 when free
    model_mutex,    \* per instance: holder of self.model's Mutex, 0 when free
    espeak_voices,  \* the languages the phonemizer can serve in this process
    pc,             \* per request: position in the code
    req,            \* per request: the arguments of the call
    sentences,      \* chunker: sentences not yet visited
    sentence,       \* chunker: the sentence being placed
    current_chunk,  \* chunker: the accumulator
    words,          \* chunker: words of an over-long sentence not yet visited
    word_chunk,     \* chunker: the word accumulator
    test_text,      \* chunker: test_chunk / test_text being measured
    chunks,         \* the chunk sequence (being built, then iterated)
    idx,            \* synthesis: number of the chunk being processed (1-based)
    infer_in,       \* synthesis: what is handed to infer for the current chunk
    infer_out,      \* synthesis: what infer returned for the current chunk
    final_audio,    \* batch: the cumulative sample buffer
    handler,        \* streaming: the sample buffers chunk_callback received
    result,         \* per request: what the call returned
    hist,           \* per request: trace of the calls made (history variable)
    mix_args,       \* a direct call of mix_styles: its arguments
    mix_ret,        \* a direct call of mix_styles: what it returned
    callback_ret,   \* streaming: what chunk_callback returned last
    speech_args,    \* a call of split_text_into_speech_chunks: its arguments
    speech_ret,     \* a call of split_text_into_speech_chunks: its result
    tok_args,       \* a call of tokenize or tokens_to_phonemes: its argument
    tok_ret         \* a call of tokenize or tokens_to_phonemes: its result

vars == <<espeak_mutex, model_mutex, espeak_voices, pc, req, sentences, sentence,
          current_chunk, words, word_chunk, test_text, chunks, idx, infer_in,
          infer_out, final_audio, handler, result, hist, mix_args, mix_ret,
          callback_ret, speech_args, speech_ret, tok_args, tok_ret>>

chunkerVars == <<sentences, sentence, current_chunk, words, word_chunk, test_text>>
synthVars == <<idx, infer_in, infer_out, final_audio, handler>>
envVars == <<espeak_voices, mix_args, mix_ret, callback_ret, speech_args,
            speech_ret, tok_args, tok_ret>>

-----------------------------------------------------------------------------
(* Bounds of the model *)

MaxRequests == 2
MaxInstances == 2
MaxTextLen == 4
MaxBudget == 4

Requests == 1..MaxRequests
Instances == 1..MaxInstances

-----------------------------------------------------------------------------
(* Strings *)

Whitespace == {" "}

RECURSIVE SplitBy(_, _)
SplitBy(s, seps) ==
    IF s = <<>> THEN << <<>> >>
    ELSE LET rest == SplitBy(Tail(s), seps)
         IN IF Head(s) \in seps
            THEN << <<>> >> \o rest
            ELSE << <<Head(s)>> \o Head(rest) >> \o Tail(rest)

RECURSIVE TrimStart(_)
TrimStart(s) ==
    IF s # <<>> /\ Head(s) \in Whitespace THEN TrimStart(Tail(s)) ELSE s

RECURSIVE TrimEnd(_)
TrimEnd(s) ==
    IF s # <<>> /\ s[Len(s)] \in Whitespace
    THEN TrimEnd(SubSeq(s, 1, Len(s) - 1))
    ELSE s

Trim(s) == TrimEnd(TrimStart(s))

NonEmpty(s) == s # <<>>

split_whitespace(s) == SelectSeq(SplitBy(s, Whitespace), NonEmpty)

-----------------------------------------------------------------------------
(* The phonemizer (espeak) and the vocabulary *)

Langs == {"en", "en-us"}

\* One phoneme string per character; the phonemizer keeps spaces and
\* punctuation.  "W" stands for a long word, "o" for a sound the two
\* languages render with different lengths, "g" for a sound whose phoneme
\* character is not in the vocabulary.
PhonemesOfChar(c, lan) ==
    CASE c = "W" -> [i \in 1..249 |-> "w"]
      [] c = "o" -> IF lan = "en" THEN <<"o">> ELSE <<"o", "u">>
      [] OTHER   -> <<c>>

RECURSIVE PhonemesOf(_, _)
PhonemesOf(text, lan) ==
    IF text = <<>> THEN <<>>
    ELSE PhonemesOfChar(Head(text), lan) \o PhonemesOf(Tail(text), lan)

\* text_to_phonemes(..).map(join): Ok(phoneme string) or Err
text_to_phonemes(text, lan, voices) ==
    IF lan \in voices
    THEN [ok |-> TRUE, ph |-> PhonemesOf(text, lan)]
    ELSE [ok |-> FALSE, ph |-> <<>>]

\* .unwrap_or_default().join("")
unwrap_or_default(r) == IF r.ok THEN r.ph ELSE <<>>

VOCAB ==
    [c \in {";", ":", ",", ".", "!", "?", " ", "T", "a", "b", "d", "e", "h",
            "i", "l", "o", "r", "s", "t", "u", "w"} |->
        CASE c = ";" -> 1  [] c = ":" -> 2  [] c = "," -> 3  [] c = "." -> 4
          [] c = "!" -> 5  [] c = "?" -> 6  [] c = " " -> 16 [] c = "T" -> 36
          [] c = "a" -> 43 [] c = "b" -> 44 [] c = "d" -> 46 [] c = "e" -> 47
          [] c = "h" -> 50 [] c = "i" -> 51 [] c = "l" -> 54 [] c = "o" -> 57
          [] c = "r" -> 60 [] c = "s" -> 61 [] c = "t" -> 62 [] c = "u" -> 63
          [] c = "w" -> 65]

InVocab(c) == c \in DOMAIN VOCAB

MapVocab(s) == [i \in 1..Len(s) |-> VOCAB[s[i]]]

\* mutant: a character that is not in the vocabulary becomes token 0
tokenize_KeepsUnknown(phonemes) ==
    [i \in 1..Len(phonemes) |->
        IF InVocab(phonemes[i]) THEN VOCAB[phonemes[i]] ELSE 0]

\* phonemes.chars().filter_map(|c| VOCAB.get(&c)).map(..).collect()
tokenize(phonemes) == MapVocab(SelectSeq(phonemes, InVocab))

\* the inverse table of VOCAB
REVERSE_VOCAB ==
    [t \in {VOCAB[c] : c \in DOMAIN VOCAB} |->
        CHOOSE c \in DOMAIN VOCAB : VOCAB[c] = t]

InReverseVocab(t) == t \in DOMAIN REVERSE_VOCAB

\* tokens.iter().filter_map(|&t| REVERSE_VOCAB.get(&(t as usize))).collect()
tokens_to_phonemes(tokens) ==
    LET known == SelectSeq(tokens, InReverseVocab)
    IN [i \in 1..Len(known) |-> REVERSE_VOCAB[known[i]]]

\* the token count the chunker works with: tokenize(phonemes).len() of a
\* measurement made with language "en"
MeasuredTokens(text, voices) ==
    Len(tokenize(unwrap_or_default(text_to_phonemes(text, "en", voices))))

-----------------------------------------------------------------------------
(* split_text_into_chunks, one step per phonemizer call *)

SentenceTerminators == {".", "?", "!", ";"}

NotBlank(s) == Trim(s) # <<>>

SplitSentences(text) == SelectSeq(SplitBy(text, SentenceTerminators), NotBlank)

FormatSentence(s) == Trim(s) \o <<".">>

\* mutant: the two texts are joined without the space
JoinSpace_NoSeparator(a, b) == a \o b

\* format!("{} {}", a, b)
JoinSpace(a, b) == a \o <<" ">> \o b

\* mutant: the comparison is off by one
OverBudget_OffByOne(count, max_tokens) == count > max_tokens + 1

\* token_count > max_tokens
OverBudget(count, max_tokens) == count > max_tokens

\* mutant: the accumulator is pushed without the is_empty test
PushIfNonEmpty_Always(cs, c) == Append(cs, c)

\* if !c.is_empty() { chunks.push(c) }
PushIfNonEmpty(cs, c) == IF c # <<>> THEN Append(cs, c) ELSE cs

\* Mutex::lock(): blocks until the mutex is free
LockFree(m) == m = 0

\* entry of split_text_into_chunks
ChunkerEntry(r) ==
    /\ pc[r] = "split"
    /\ sentences' = [sentences EXCEPT ![r] = SplitSentences(req[r].txt)]
    /\ current_chunk' = [current_chunk EXCEPT ![r] = <<>>]
    /\ chunks' = [chunks EXCEPT ![r] = <<>>]
    /\ pc' = [pc EXCEPT ![r] = "c_loop"]
    /\ UNCHANGED <<espeak_mutex, model_mutex, envVars, req, sentence, words,
                   word_chunk, test_text, synthVars, result, hist>>

\* for sentence in sentences: take the lock for the sentence measurement
SentenceLock(r) ==
    /\ pc[r] = "c_loop"
    /\ sentences[r] # <<>>
    /\ LockFree(espeak_mutex)
    /\ espeak_mutex' = r
    /\ sentence' = [sentence EXCEPT ![r] = FormatSentence(Head(sentences[r]))]
    /\ sentences' = [sentences EXCEPT ![r] = Tail(sentences[r])]
    /\ pc' = [pc EXCEPT ![r] = "c_ph_sentence"]
    /\ UNCHANGED <<model_mutex, envVars, req, current_chunk, words,
                   word_chunk, test_text, chunks, synthVars, result, hist>>

\* the sentence measurement returns; the guard is dropped; the branch is taken
SentenceMeasured(r) ==
    /\ pc[r] = "c_ph_sentence"
    /\ espeak_mutex' = 0
    /\ LET token_count == MeasuredTokens(sentence[r], espeak_voices)
       IN IF OverBudget(token_count, req[r].max_tokens)
          THEN /\ words' = [words EXCEPT ![r] = split_whitespace(sentence[r])]
               /\ word_chunk' = [word_chunk EXCEPT ![r] = <<>>]
               /\ pc' = [pc EXCEPT ![r] = "c_word_loop"]
               /\ UNCHANGED <<current_chunk, test_text>>
          ELSE IF current_chunk[r] # <<>>
          THEN /\ test_text' = [test_text EXCEPT ![r] =
                                   JoinSpace(current_chunk[r], sentence[r])]
               /\ pc' = [pc EXCEPT ![r] = "c_combined"]
               /\ UNCHANGED <<current_chunk, words, word_chunk>>
          ELSE /\ current_chunk' = [current_chunk EXCEPT ![r] = sentence[r]]
               /\ pc' = [pc EXCEPT ![r] = "c_loop"]
               /\ UNCHANGED <<words, word_chunk, test_text>>
    /\ UNCHANGED <<model_mutex, envVars, req, sentences, sentence, chunks,
                   synthVars, result, hist>>

\* mutant: the word-level measurement is made without taking the lock
WordLock_NoGuard(r) ==
    /\ pc[r] = "c_word_loop"
    /\ words[r] # <<>>
    /\ test_text' = [test_text EXCEPT ![r] =
                        IF word_chunk[r] = <<>> THEN Head(words[r])
                        ELSE JoinSpace(word_chunk[r], Head(words[r]))]
    /\ pc' = [pc EXCEPT ![r] = "c_ph_word"]
    /\ UNCHANGED <<espeak_mutex, model_mutex, envVars, req, sentences, sentence,
                   current_chunk, words, word_chunk, chunks, synthVars, result, hist>>

\* for word in words: build test_chunk and take the lock for its measurement
WordLock(r) ==
    /\ pc[r] = "c_word_loop"
    /\ words[r] # <<>>
    /\ LockFree(espeak_mutex)
    /\ espeak_mutex' = r
    /\ test_text' = [test_text EXCEPT ![r] =
                        IF word_chunk[r] = <<>> THEN Head(words[r])
                        ELSE JoinSpace(word_chunk[r], Head(words[r]))]
    /\ pc' = [pc EXCEPT ![r] = "c_ph_word"]
    /\ UNCHANGED <<model_mutex, envVars, req, sentences, sentence,
                   current_chunk, words, word_chunk, chunks, synthVars, result, hist>>

\* the word measurement returns; the guard is dropped; the branch is taken
WordMeasured(r) ==
    /\ pc[r] = "c_ph_word"
    /\ espeak_mutex' = 0
    /\ LET test_tokens == MeasuredTokens(test_text[r], espeak_voices)
           word == Head(words[r])
       IN IF OverBudget(test_tokens, req[r].max_tokens)
          THEN /\ chunks' = [chunks EXCEPT ![r] = PushIfNonEmpty(@, word_chunk[r])]
               /\ word_chunk' = [word_chunk EXCEPT ![r] = word]
          ELSE /\ word_chunk' = [word_chunk EXCEPT ![r] = test_text[r]]
               /\ UNCHANGED chunks
    /\ words' = [words EXCEPT ![r] = Tail(words[r])]
    /\ pc' = [pc EXCEPT ![r] = "c_word_loop"]
    /\ UNCHANGED <<model_mutex, envVars, req, sentences, sentence,
                   current_chunk, test_text, synthVars, result, hist>>

\* end of the word loop: the last word_chunk is pushed
WordsDone(r) ==
    /\ pc[r] = "c_word_loop"
    /\ words[r] = <<>>
    /\ chunks' = [chunks EXCEPT ![r] = PushIfNonEmpty(@, word_chunk[r])]
    /\ pc' = [pc EXCEPT ![r] = "c_loop"]
    /\ UNCHANGED <<espeak_mutex, model_mutex, envVars, req, chunkerVars,
                   synthVars, result, hist>>

\* take the lock for the measurement of current_chunk + " " + sentence
CombinedLock(r) ==
    /\ pc[r] = "c_combined"
    /\ LockFree(espeak_mutex)
    /\ espeak_mutex' = r
    /\ pc' = [pc EXCEPT ![r] = "c_ph_combined"]
    /\ UNCHANGED <<model_mutex, envVars, req, chunkerVars, chunks,
                   synthVars, result, hist>>

\* the combined measurement returns; the guard is dropped; the branch is taken
CombinedMeasured(r) ==
    /\ pc[r] = "c_ph_combined"
    /\ espeak_mutex' = 0
    /\ LET test_tokens == MeasuredTokens(test_text[r], espeak_voices)
       IN IF OverBudget(test_tokens, req[r].max_tokens)
          THEN /\ chunks' = [chunks EXCEPT ![r] = Append(@, current_chunk[r])]
               /\ current_chunk' = [current_chunk EXCEPT ![r] = sentence[r]]
          ELSE /\ current_chunk' = [current_chunk EXCEPT ![r] = test_text[r]]
               /\ UNCHANGED chunks
    /\ pc' = [pc EXCEPT ![r] = "c_loop"]
    /\ UNCHANGED <<model_mutex, envVars, req, sentences, sentence, words,
                   word_chunk, test_text, synthVars, result, hist>>

\* after the sentence loop: the accumulator is flushed and chunks returned
ChunkerReturn(r) ==
    /\ pc[r] = "c_loop"
    /\ sentences[r] = <<>>
    /\ chunks' = [chunks EXCEPT ![r] = PushIfNonEmpty(@, current_chunk[r])]
    /\ idx' = [idx EXCEPT ![r] = 1]
    /\ pc' = [pc EXCEPT ![r] = "s_loop"]
    /\ UNCHANGED <<espeak_mutex, model_mutex, envVars, req, chunkerVars,
                   infer_in, infer_out, final_audio, handler, result, hist>>

ChunkerStep(r) ==
    \/ ChunkerEntry(r)
    \/ SentenceLock(r)
    \/ SentenceMeasured(r)
    \/ WordLock(r)
    \/ WordMeasured(r)
    \/ WordsDone(r)
    \/ CombinedLock(r)
    \/ CombinedMeasured(r)
    \/ ChunkerReturn(r)

-----------------------------------------------------------------------------
(* split_text_into_speech_chunks: the word-oriented chunker *)

SpeechTerminators == {".", "!", "?"}

ClausePunctuation == {",", ";", ":"}

\* the char_indices loop: clauses cut after ',', ';' or ':', then the rest
RECURSIVE SubClauses(_, _, _, _)
SubClauses(s, i, current_pos, acc) ==
    IF i > Len(s)
    THEN IF current_pos <= Len(s)
         THEN Append(acc, SubSeq(s, current_pos, Len(s)))
         ELSE acc
    ELSE IF s[i] \in ClausePunctuation
         THEN SubClauses(s, i + 1, i + 1,
                         IF i > current_pos
                         THEN Append(acc, Append(SubSeq(s, current_pos, i - 1), s[i]))
                         ELSE acc)
         ELSE SubClauses(s, i + 1, current_pos, acc)

\* sub_clauses.iter().map(trim).filter(not empty)
TrimmedClauses(cs) == SelectSeq([k \in 1..Len(cs) |-> Trim(cs[k])], NonEmpty)

\* for clause in sub_clauses: clauses are gathered while the word count
\* allows; then the final chunk is pushed
RECURSIVE GroupClauses(_, _, _, _, _)
GroupClauses(clauses, chunk, word_count, max_words, out) ==
    IF clauses = <<>>
    THEN PushIfNonEmpty(out, chunk)
    ELSE LET clause == Trim(Head(clauses))
             clause_word_count == Len(split_whitespace(clause))
         IN IF word_count + clause_word_count <= max_words
            THEN GroupClauses(Tail(clauses),
                              IF chunk = <<>> THEN clause
                              ELSE JoinSpace(chunk, clause),
                              word_count + clause_word_count,
                              max_words, out)
            ELSE GroupClauses(Tail(clauses), clause, clause_word_count,
                              max_words, PushIfNonEmpty(out, chunk))

\* the body of the sentence loop: the chunks one sentence adds
SentenceSpeechChunks(raw, max_words) ==
    LET s == Trim(raw)
    IN IF s = <<>> THEN <<>>
       ELSE IF Len(split_whitespace(s)) <= max_words
       THEN << Append(s, ".") >>
       ELSE GroupClauses(TrimmedClauses(SubClauses(s, 1, 1, <<>>)),
                         <<>>, 0, max_words, <<>>)

RECURSIVE SpeechSentenceLoop(_, _)
SpeechSentenceLoop(ss, max_words) ==
    IF ss = <<>> THEN <<>>
    ELSE SentenceSpeechChunks(Head(ss), max_words)
             \o SpeechSentenceLoop(Tail(ss), max_words)

\* the fallback: buckets of max_words words
RECURSIVE WordBuckets(_, _, _, _, _)
WordBuckets(ws, chunk, word_count, max_words, out) ==
    IF ws = <<>>
    THEN PushIfNonEmpty(out, chunk)
    ELSE IF word_count + 1 <= max_words
         THEN WordBuckets(Tail(ws),
                          IF chunk = <<>> THEN Head(ws)
                          ELSE JoinSpace(chunk, Head(ws)),
                          word_count + 1, max_words, out)
         ELSE WordBuckets(Tail(ws), Head(ws), 1, max_words,
                          PushIfNonEmpty(out, chunk))

split_text_into_speech_chunks(text, max_words) ==
    LET found == SelectSeq(SplitBy(text, SpeechTerminators), NotBlank)
        cs == SpeechSentenceLoop(found, max_words)
    IN IF cs = <<>>
       THEN WordBuckets(split_whitespace(text), <<>>, 0, max_words, <<>>)
       ELSE cs

-----------------------------------------------------------------------------
(* The style store: load_voices and mix_styles *)

StyleTableLen == 511
StyleDim == 256

\* Style values are fixed-point numbers with three decimals: Fx(t) is t.000
Fx(t) == 1000 * t

VoiceNames == {<<"a">>, <<"b">>}

VoiceBase(name) == IF name = <<"a">> THEN 1 ELSE 2

\* load_voices: one table of StyleTableLen vectors of StyleDim values per
\* voice of the voices file (the file's numbers are data: any values that
\* differ by voice, index and dimension do)
styles ==
    [name \in VoiceNames |->
        [i \in 0..(StyleTableLen - 1) |->
            [j \in 1..StyleDim |-> Fx(VoiceBase(name) + (2 * (i % 5)) + (j % 7))]]]

Digits == {"0", "1", "2", "3", "4", "5", "6", "7", "8", "9"}

DigitValue(c) ==
    CASE c = "0" -> 0 [] c = "1" -> 1 [] c = "2" -> 2 [] c = "3" -> 3
      [] c = "4" -> 4 [] c = "5" -> 5 [] c = "6" -> 6 [] c = "7" -> 7
      [] c = "8" -> 8 [] c = "9" -> 9

RECURSIVE DigitsValue(_)
DigitsValue(s) ==
    IF s = <<>> THEN 0
    ELSE (10 * DigitsValue(SubSeq(s, 1, Len(s) - 1))) + DigitValue(s[Len(s)])

AllDigits(s) == \A i \in 1..Len(s) : s[i] \in Digits

\* str::split_once(delim): None (<<>>) or Some((before, after)) at the first delim
split_once(s, delim) ==
    IF \E i \in 1..Len(s) : s[i] = delim
    THEN LET i == CHOOSE k \in 1..Len(s) :
                      s[k] = delim /\ \A m \in 1..(k - 1) : s[m] # delim
         IN << <<SubSeq(s, 1, i - 1), SubSeq(s, i + 1, Len(s))>> >>
    ELSE <<>>

\* mutant: only a single decimal digit is accepted as a weight
parse_f32_SingleDigit(s) ==
    IF Len(s) = 1 /\ s[1] \in Digits
    THEN [ok |-> TRUE, hundredths |-> 100 * DigitValue(s[1])]
    ELSE [ok |-> FALSE, hundredths |-> 0]

\* str::parse::<f32>() on strings of digits with at most one '.' and at most
\* two fractional digits (every other string of the modelled inputs is an
\* Err); the value is returned in hundredths
parse_f32(s) ==
    LET parts == split_once(s, ".")
        int  == IF parts = <<>> THEN s ELSE parts[1][1]
        frac == IF parts = <<>> THEN <<>> ELSE parts[1][2]
    IN IF AllDigits(int) /\ AllDigits(frac) /\ Len(int) + Len(frac) > 0
          /\ Len(frac) <= 2
       THEN [ok |-> TRUE,
             hundredths |-> (100 * DigitsValue(int))
                            + (IF Len(frac) = 1 THEN 10 * DigitsValue(frac)
                               ELSE DigitsValue(frac))]
       ELSE [ok |-> FALSE, hundredths |-> 0]

\* portion * 0.1, in thousandths
PortionWeight(hundredths) == hundredths

\* the parse loop of mix_styles: the (name, portion * 0.1) pairs, in order
RECURSIVE ParseStyles(_)
ParseStyles(comps) ==
    IF comps = <<>> THEN <<>>
    ELSE LET parts == split_once(Head(comps), ".")
             rest  == ParseStyles(Tail(comps))
         IN IF parts = <<>> THEN rest
            ELSE LET portion == parse_f32(parts[1][2])
                 IN IF portion.ok
                    THEN << [name |-> parts[1][1],
                             portion |-> PortionWeight(portion.hundredths)] >> \o rest
                    ELSE rest

\* style[tokens_len]: Vec indexing panics outside 0..len-1
StyleIndexInBounds(tokens_len) == tokens_len < StyleTableLen

\* self.styles.get(name)
StyleKnown(name) == name \in DOMAIN styles

\* mutant: the product is assigned, not added
BlendInto_Overwrite(acc, style_slice, portion) ==
    [j \in 1..StyleDim |-> (style_slice[j] * portion) \div 1000]

\* blended_style[0][j] += style_slice[j] * portion, for j in 0..256
BlendInto(acc, style_slice, portion) ==
    [j \in 1..StyleDim |-> acc[j] + ((style_slice[j] * portion) \div 1000)]

\* the blend loop of mix_styles: the blended vector, or a panic
RECURSIVE BlendLoop(_, _, _)
BlendLoop(pairs, tokens_len, acc) ==
    IF pairs = <<>> THEN [panic |-> FALSE, v |-> acc]
    ELSE LET p == Head(pairs)
         IN IF StyleKnown(p.name)
            THEN IF StyleIndexInBounds(tokens_len)
                 THEN BlendLoop(Tail(pairs), tokens_len,
                                BlendInto(acc, styles[p.name][tokens_len], p.portion))
                 ELSE [panic |-> TRUE, v |-> <<>>]
            ELSE BlendLoop(Tail(pairs), tokens_len, acc)

Contains(s, c) == \E i \in 1..Len(s) : s[i] = c

\* mutant: an unknown voice name is answered with a zero vector
SingleStyle_UnknownIsSilent(style_name, tokens_len) ==
    IF StyleKnown(style_name)
    THEN IF StyleIndexInBounds(tokens_len)
         THEN [kind |-> "Ok", styles |-> <<styles[style_name][tokens_len]>>]
         ELSE [kind |-> "Panic"]
    ELSE [kind |-> "Ok", styles |-> <<[j \in 1..StyleDim |-> 0]>>]

\* the branch of mix_styles for a style string without '+'
SingleStyle(style_name, tokens_len) ==
    IF StyleKnown(style_name)
    THEN IF StyleIndexInBounds(tokens_len)
         THEN [kind |-> "Ok", styles |-> <<styles[style_name][tokens_len]>>]
         ELSE [kind |-> "Panic"]
    ELSE [kind |-> "Err", error |-> "VoiceNotFound", name |-> style_name]

\* the branch of mix_styles for a style string with '+'
BlendedStyle(style_name, tokens_len) ==
    LET pairs == ParseStyles(SplitBy(style_name, {"+"}))
        blended == BlendLoop(pairs, tokens_len, [j \in 1..StyleDim |-> 0])
    IN IF blended.panic
       THEN [kind |-> "Panic"]
       ELSE [kind |-> "Ok", styles |-> <<blended.v>>]

\* mix_styles(style_name, tokens_len): Ok(styles), Err(VoiceNotFound) or a
\* panic of the calling thread (index out of bounds)
mix_styles(style_name, tokens_len) ==
    IF ~Contains(style_name, "+")
    THEN SingleStyle(style_name, tokens_len)
    ELSE BlendedStyle(style_name, tokens_len)

-----------------------------------------------------------------------------
(* tts_raw_audio and tts_raw_audio_streaming, one step per blocking call *)

ChunkBudget == 500
SilenceToken == 30
Sentinel == 0

\* Option<usize> as a sequence of at most one element
unwrap_or(opt, default) == IF opt = <<>> THEN default ELSE opt[1]

\* mutant: the silence tokens are pushed at the end
InsertSilence_AtEnd(tokens, initial_silence) ==
    tokens \o [i \in 1..unwrap_or(initial_silence, 0) |-> SilenceToken]

\* for _ in 0..initial_silence.unwrap_or(0) { tokens.insert(0, 30) }
InsertSilence(tokens, initial_silence) ==
    [i \in 1..unwrap_or(initial_silence, 0) |-> SilenceToken] \o tokens

\* vec![0], the tokens, 0
PadTokens(tokens) == <<Sentinel>> \o tokens \o <<Sentinel>>

\* the inference engine is opaque and deterministic: the samples it returns
\* are a function of its input (here one or two samples that name the input)
InferAudio(in) ==
    [k \in 1..(1 + (Len(in.tokens) % 2)) |->
        <<Len(in.tokens), in.tokens[2], in.style_len, k>>]

Ok(value) == [kind |-> "Ok", value |-> value]

\* the error of a failed text_to_phonemes call, boxed and returned by `?`
PhonemizeErr == [kind |-> "Err", error |-> "Phonemizer"]

\* the error of mix_styles, returned by `?`
VoiceNotFoundErr(name) == [kind |-> "Err", error |-> "VoiceNotFound", name |-> name]

\* io::Error::new(Other, format!("Chunk processing failed: {:?}", e))
ChunkFailedErr(e) == [kind |-> "Err", error |-> "ChunkProcessingFailed", cause |-> e]

\* the error the chunk handler returned, passed on by `?`
CallbackErr == [kind |-> "Err", error |-> "Callback"]

\* mutant: a failed phonemization of a chunk counts as an empty string
PhonemizeChunk_OrDefault(chunk, lan, voices) ==
    [ok |-> TRUE, ph |-> unwrap_or_default(text_to_phonemes(chunk, lan, voices))]

\* text_to_phonemes(&chunk, lan, ..).map_err(..)?.join("")
PhonemizeChunk(chunk, lan, voices) == text_to_phonemes(chunk, lan, voices)

\* for chunk in chunks: take the phonemizer lock for the next chunk
PhonemizeLock(r) ==
    /\ pc[r] = "s_loop"
    /\ req[r].max_tokens = ChunkBudget
    /\ idx[r] <= Len(chunks[r])
    /\ LockFree(espeak_mutex)
    /\ espeak_mutex' = r
    /\ pc' = [pc EXCEPT ![r] = "s_ph"]
    /\ hist' = [hist EXCEPT ![r] = Append(@, <<"phonemize", idx[r]>>)]
    /\ UNCHANGED <<model_mutex, envVars, req, chunkerVars, chunks,
                   synthVars, result>>

\* the phonemizer returns and the guard is dropped; then tokenize, the
\* silence tokens, mix_styles and the padding, up to the inference lock
Phonemized(r) ==
    /\ pc[r] = "s_ph"
    /\ espeak_mutex' = 0
    /\ LET phonemes == PhonemizeChunk(chunks[r][idx[r]], req[r].lan, espeak_voices)
           tokens == InsertSilence(tokenize(phonemes.ph), req[r].initial_silence)
           mixed == mix_styles(req[r].style_name, Len(tokens))
       IN IF ~phonemes.ok
          THEN /\ result' = [result EXCEPT ![r] = PhonemizeErr]
               /\ pc' = [pc EXCEPT ![r] = "done"]
               /\ UNCHANGED infer_in
          ELSE IF mixed.kind = "Err"
          THEN /\ result' = [result EXCEPT ![r] = VoiceNotFoundErr(mixed.name)]
               /\ pc' = [pc EXCEPT ![r] = "done"]
               /\ UNCHANGED infer_in
          ELSE IF mixed.kind = "Panic"
          THEN /\ pc' = [pc EXCEPT ![r] = "panicked"]
               /\ UNCHANGED <<infer_in, result>>
          ELSE /\ infer_in' = [infer_in EXCEPT ![r] =
                                  [tokens |-> PadTokens(tokens),
                                   styles |-> mixed.styles,
                                   style_name |-> req[r].style_name,
                                   style_len |-> Len(tokens)]]
               /\ pc' = [pc EXCEPT ![r] = "s_model"]
               /\ UNCHANGED result
    /\ UNCHANGED <<model_mutex, envVars, req, chunkerVars, chunks, idx,
                   infer_out, final_audio, handler, hist>>

\* mutant: infer is called without waiting for the instance's lock
ModelLock_NoGuard(r) ==
    /\ pc[r] = "s_model"
    /\ model_mutex' = [model_mutex EXCEPT ![req[r].inst] = r]
    /\ pc' = [pc EXCEPT ![r] = "s_infer"]
    /\ hist' = [hist EXCEPT ![r] = Append(@, <<"infer", idx[r]>>)]
    /\ UNCHANGED <<espeak_mutex, envVars, req, chunkerVars, chunks,
                   synthVars, result>>

\* mutant: one inference lock is shared by all the instances
ModelLock_SharedLock(r) ==
    /\ pc[r] = "s_model"
    /\ \A i \in Instances : LockFree(model_mutex[i])
    /\ model_mutex' = [model_mutex EXCEPT ![req[r].inst] = r]
    /\ pc' = [pc EXCEPT ![r] = "s_infer"]
    /\ hist' = [hist EXCEPT ![r] = Append(@, <<"infer", idx[r]>>)]
    /\ UNCHANGED <<espeak_mutex, envVars, req, chunkerVars, chunks,
                   synthVars, result>>

\* self.model.lock().unwrap(): the guard lives to the end of the match
ModelLock(r) ==
    /\ pc[r] = "s_model"
    /\ LockFree(model_mutex[req[r].inst])
    /\ model_mutex' = [model_mutex EXCEPT ![req[r].inst] = r]
    /\ pc' = [pc EXCEPT ![r] = "s_infer"]
    /\ hist' = [hist EXCEPT ![r] = Append(@, <<"infer", idx[r]>>)]
    /\ UNCHANGED <<espeak_mutex, envVars, req, chunkerVars, chunks,
                   synthVars, result>>

\* infer returns Ok(samples) or Err(engine error)
InferReturns(r) ==
    /\ pc[r] = "s_infer"
    /\ \E ok \in BOOLEAN :
          infer_out' = [infer_out EXCEPT ![r] =
                           IF ok THEN Ok(InferAudio(infer_in[r]))
                           ELSE [kind |-> "Err", error |-> "Engine"]]
    /\ pc' = [pc EXCEPT ![r] = "s_arm"]
    /\ UNCHANGED <<espeak_mutex, model_mutex, envVars, req, chunkerVars,
                   chunks, idx, infer_in, final_audio, handler, result, hist>>

\* mutant: the chunk's samples replace the buffer
BatchArmOk_Overwrite(r) ==
    /\ pc[r] = "s_arm"
    /\ ~req[r].streaming
    /\ infer_out[r].kind = "Ok"
    /\ final_audio' = [final_audio EXCEPT ![r] = infer_out[r].value]
    /\ model_mutex' = [model_mutex EXCEPT ![req[r].inst] = 0]
    /\ idx' = [idx EXCEPT ![r] = @ + 1]
    /\ pc' = [pc EXCEPT ![r] = "s_loop"]
    /\ UNCHANGED <<espeak_mutex, envVars, req, chunkerVars, chunks,
                   infer_in, infer_out, handler, result, hist>>

\* Ok arm of tts_raw_audio: final_audio.extend_from_slice(&chunk_audio)
BatchArmOk(r) ==
    /\ pc[r] = "s_arm"
    /\ ~req[r].streaming
    /\ infer_out[r].kind = "Ok"
    /\ final_audio' = [final_audio EXCEPT ![r] = @ \o infer_out[r].value]
    /\ model_mutex' = [model_mutex EXCEPT ![req[r].inst] = 0]
    /\ idx' = [idx EXCEPT ![r] = @ + 1]
    /\ pc' = [pc EXCEPT ![r] = "s_loop"]
    /\ UNCHANGED <<espeak_mutex, envVars, req, chunkerVars, chunks,
                   infer_in, infer_out, handler, result, hist>>

\* mutant: the Ok arm goes on to the next chunk without calling the handler
StreamArmOk_NoCallback(r) ==
    /\ pc[r] = "s_arm"
    /\ req[r].streaming
    /\ infer_out[r].kind = "Ok"
    /\ model_mutex' = [model_mutex EXCEPT ![req[r].inst] = 0]
    /\ idx' = [idx EXCEPT ![r] = @ + 1]
    /\ pc' = [pc EXCEPT ![r] = "s_loop"]
    /\ UNCHANGED <<espeak_mutex, envVars, req, chunkerVars, chunks,
                   infer_in, infer_out, final_audio, handler, result, hist>>

\* mutant: the handler's error is dropped and the loop goes on
StreamArmOk_IgnoresError(r) ==
    /\ pc[r] = "s_arm"
    /\ req[r].streaming
    /\ infer_out[r].kind = "Ok"
    /\ handler' = [handler EXCEPT ![r] = Append(@, infer_out[r].value)]
    /\ hist' = [hist EXCEPT ![r] = Append(@, <<"emit", idx[r]>>)]
    /\ model_mutex' = [model_mutex EXCEPT ![req[r].inst] = 0]
    /\ \E ret \in {"Ok", "Err"} :
          callback_ret' = [callback_ret EXCEPT ![r] = ret]
    /\ idx' = [idx EXCEPT ![r] = @ + 1]
    /\ pc' = [pc EXCEPT ![r] = "s_loop"]
    /\ UNCHANGED <<espeak_mutex, espeak_voices, mix_args, mix_ret, speech_args,
                   speech_ret, tok_args, tok_ret, req, chunkerVars, chunks, infer_in, infer_out,
                   final_audio, result>>

\* Ok arm of tts_raw_audio_streaming: chunk_callback(chunk_audio)?
StreamArmOk(r) ==
    /\ pc[r] = "s_arm"
    /\ req[r].streaming
    /\ infer_out[r].kind = "Ok"
    /\ handler' = [handler EXCEPT ![r] = Append(@, infer_out[r].value)]
    /\ hist' = [hist EXCEPT ![r] = Append(@, <<"emit", idx[r]>>)]
    /\ model_mutex' = [model_mutex EXCEPT ![req[r].inst] = 0]
    /\ \E ret \in {"Ok", "Err"} :
          /\ callback_ret' = [callback_ret EXCEPT ![r] = ret]
          /\ IF ret = "Ok"
             THEN /\ idx' = [idx EXCEPT ![r] = @ + 1]
                  /\ pc' = [pc EXCEPT ![r] = "s_loop"]
                  /\ UNCHANGED result
             ELSE /\ result' = [result EXCEPT ![r] = CallbackErr]
                  /\ pc' = [pc EXCEPT ![r] = "done"]
                  /\ UNCHANGED idx
    /\ UNCHANGED <<espeak_mutex, espeak_voices, mix_args, mix_ret, speech_args,
                   speech_ret, tok_args, tok_ret, req, chunkerVars, chunks, infer_in, infer_out,
                   final_audio>>

\* mutant: the Err arm leaves the loop and what was gathered is returned
ArmErr_ReturnsPartial(r) ==
    /\ pc[r] = "s_arm"
    /\ infer_out[r].kind = "Err"
    /\ result' = [result EXCEPT ![r] = Ok(final_audio[r])]
    /\ model_mutex' = [model_mutex EXCEPT ![req[r].inst] = 0]
    /\ pc' = [pc EXCEPT ![r] = "done"]
    /\ UNCHANGED <<espeak_mutex, envVars, req, chunkerVars, chunks,
                   synthVars, hist>>

\* Err arm of both: the chunk text goes to stderr, the error is returned
ArmErr(r) ==
    /\ pc[r] = "s_arm"
    /\ infer_out[r].kind = "Err"
    /\ result' = [result EXCEPT ![r] = ChunkFailedErr(infer_out[r].error)]
    /\ model_mutex' = [model_mutex EXCEPT ![req[r].inst] = 0]
    /\ pc' = [pc EXCEPT ![r] = "done"]
    /\ UNCHANGED <<espeak_mutex, envVars, req, chunkerVars, chunks,
                   synthVars, hist>>

\* after the chunk loop: Ok(final_audio), or Ok(()) when streaming
SynthReturn(r) ==
    /\ pc[r] = "s_loop"
    /\ req[r].max_tokens = ChunkBudget
    /\ idx[r] > Len(chunks[r])
    /\ result' = [result EXCEPT ![r] =
                     IF req[r].streaming THEN Ok(<<>>) ELSE Ok(final_audio[r])]
    /\ pc' = [pc EXCEPT ![r] = "done"]
    /\ UNCHANGED <<espeak_mutex, model_mutex, envVars, req, chunkerVars,
                   chunks, synthVars, hist>>

SynthStep(r) ==
    \/ ChunkerStep(r)
    \/ PhonemizeLock(r)
    \/ Phonemized(r)
    \/ ModelLock(r)
    \/ InferReturns(r)
    \/ BatchArmOk(r)
    \/ StreamArmOk(r)
    \/ ArmErr(r)
    \/ SynthReturn(r)

-----------------------------------------------------------------------------
(* Initial state *)

NoRequest ==
    [txt |-> <<>>, lan |-> "en", style_name |-> <<>>, initial_silence |-> <<>>,
     streaming |-> FALSE, inst |-> 1, max_tokens |-> 0]

VoiceSets == {{"en", "en-us"}, {"en-us"}, {"en"}}

Init ==
    /\ espeak_mutex = 0
    /\ model_mutex = [i \in Instances |-> 0]
    /\ espeak_voices \in VoiceSets
    /\ pc = [r \in Requests |-> "idle"]
    /\ req = [r \in Requests |-> NoRequest]
    /\ sentences = [r \in Requests |-> <<>>]
    /\ sentence = [r \in Requests |-> <<>>]
    /\ current_chunk = [r \in Requests |-> <<>>]
    /\ words = [r \in Requests |-> <<>>]
    /\ word_chunk = [r \in Requests |-> <<>>]
    /\ test_text = [r \in Requests |-> <<>>]
    /\ chunks = [r \in Requests |-> <<>>]
    /\ idx = [r \in Requests |-> 0]
    /\ infer_in = [r \in Requests |-> <<>>]
    /\ infer_out = [r \in Requests |-> <<>>]
    /\ final_audio = [r \in Requests |-> <<>>]
    /\ handler = [r \in Requests |-> <<>>]
    /\ result = [r \in Requests |-> <<>>]
    /\ hist = [r \in Requests |-> <<>>]
    /\ mix_args = <<>>
    /\ mix_ret = <<>>
    /\ callback_ret = [r \in Requests |-> "None"]
    /\ speech_args = <<>>
    /\ speech_ret = <<>>
    /\ tok_args = <<>>
    /\ tok_ret = <<>>

-----------------------------------------------------------------------------
(* The chunker alone: split_text_into_chunks(text, max_tokens) for every    *)
(* short text over a small alphabet and every small budget                  *)

ChunkAlphabet == {"a", "b", " ", ".", "!"}

RECURSIVE StringsUpTo(_, _)
StringsUpTo(alphabet, n) ==
    IF n = 0 THEN {<<>>}
    ELSE LET shorter == StringsUpTo(alphabet, n - 1)
         IN shorter \cup {Append(s, c) : s \in shorter, c \in alphabet}

ChunkTexts == StringsUpTo(ChunkAlphabet, MaxTextLen)

\* "Hello world. This is a test!"
HelloText ==
    << "H", "e", "l", "l", "o", " ", "w", "o", "r", "l", "d", ".", " ",
       "T", "h", "i", "s", " ", "i", "s", " ", "a", " ", "t", "e", "s",
       "t", "!" >>

\* "Hello world. This is a test."
HelloChunk ==
    << "H", "e", "l", "l", "o", " ", "w", "o", "r", "l", "d", ".", " ",
       "T", "h", "i", "s", " ", "i", "s", " ", "a", " ", "t", "e", "s",
       "t", "." >>

\* the calls made: every short text with every small budget, and the
\* two-sentence text with the budget the synthesis loops pass
ChunkInputs ==
    (ChunkTexts \X (1..MaxBudget)) \cup {<<HelloText, ChunkBudget>>}

ChunkCall(r) ==
    /\ pc[r] = "idle"
    /\ \E in \in ChunkInputs :
          req' = [req EXCEPT ![r] = [NoRequest EXCEPT !.txt = in[1],
                                                      !.max_tokens = in[2]]]
    /\ pc' = [pc EXCEPT ![r] = "split"]
    /\ UNCHANGED <<espeak_mutex, model_mutex, envVars, chunkerVars, chunks,
                   synthVars, result, hist>>

NextChunk == ChunkCall(1) \/ ChunkerStep(1)

SpecChunk == Init /\ [][NextChunk]_vars

-----------------------------------------------------------------------------
(* Claims about split_text_into_chunks (checked under SpecChunk) *)

ReplaceTerminators(s) ==
    [i \in 1..Len(s) |-> IF s[i] \in SentenceTerminators THEN " " ELSE s[i]]

\* the words of a text, punctuation ignored
WordsIgnoringPunctuation(s) == split_whitespace(ReplaceTerminators(s))

RECURSIVE WordsOfChunks(_)
WordsOfChunks(cs) ==
    IF cs = <<>> THEN <<>>
    ELSE WordsIgnoringPunctuation(Head(cs)) \o WordsOfChunks(Tail(cs))

ChunkerReturned(r) == pc[r] = "s_loop" /\ idx[r] = 1

\* C2: the words of the returned chunks, read chunk after chunk with the
\* re-inserted punctuation ignored, are the words of the input in their
\* original order.
C2_CoverageInOrder ==
    \A r \in Requests :
        ChunkerReturned(r) =>
            WordsOfChunks(chunks[r]) = WordsIgnoringPunctuation(req[r].txt)

\* C3 as stated: every returned chunk has at most max_tokens tokens after
\* the two sentinels are added, unless it is a single word whose own token
\* count exceeds the budget.
SingleOverlongWord(c, max_tokens) ==
    /\ Len(split_whitespace(c)) = 1
    /\ MeasuredTokens(c, espeak_voices) > max_tokens

C3_PaddedWithinBudget ==
    \A r \in Requests :
        ChunkerReturned(r) =>
            \A i \in 1..Len(chunks[r]) :
                \/ MeasuredTokens(chunks[r][i], espeak_voices) + 2 <= req[r].max_tokens
                \/ SingleOverlongWord(chunks[r][i], req[r].max_tokens)

\* C3 amended: every returned chunk has at most max_tokens tokens before the
\* two sentinels are added (at most max_tokens + 2 after), unless it is a
\* single word whose own token count exceeds the budget.
C3_UnpaddedWithinBudget ==
    \A r \in Requests :
        ChunkerReturned(r) =>
            \A i \in 1..Len(chunks[r]) :
                \/ MeasuredTokens(chunks[r][i], espeak_voices) <= req[r].max_tokens
                \/ SingleOverlongWord(chunks[r][i], req[r].max_tokens)

\* the chunker returned a chunk of several words that fills the budget exactly
C3_Witness ==
    /\ ChunkerReturned(1)
    /\ "en" \in espeak_voices
    /\ \E i \in 1..Len(chunks[1]) :
          /\ Len(split_whitespace(chunks[1][i])) > 1
          /\ MeasuredTokens(chunks[1][i], espeak_voices) = req[1].max_tokens

\* C11 as stated: "Hello world. This is a test!" with max_tokens = 500
\* yields exactly the two chunks "Hello world." and "This is a test!".
C11_TwoChunksKeepTerminator ==
    \A r \in Requests :
        (ChunkerReturned(r) /\ req[r].txt = HelloText
                           /\ req[r].max_tokens = ChunkBudget) =>
            chunks[r] = << SubSeq(HelloText, 1, 12), SubSeq(HelloText, 14, 28) >>

\* C11 amended: "Hello world. This is a test!" with max_tokens = 500 yields
\* exactly one chunk, "Hello world. This is a test.": the two sentences
\* fit the budget together and are joined by a space, and the terminator
\* of the second is replaced by a period.
C11_OneChunkPeriodTerminated ==
    \A r \in Requests :
        (ChunkerReturned(r) /\ req[r].txt = HelloText
                           /\ req[r].max_tokens = ChunkBudget) =>
            chunks[r] = <<HelloChunk>>

\* the chunker returned for "Hello world. This is a test!" and budget 500
C11_Witness ==
    /\ ChunkerReturned(1)
    /\ req[1].txt = HelloText
    /\ req[1].max_tokens = ChunkBudget
    /\ Len(chunks[1]) = 1

\* C12: no element of the returned sequence is the empty string (also for
\* empty text, whitespace only, terminators only), and a non-empty
\* accumulator left after the last sentence is the final chunk.
C12_NoEmptyChunkAndFinalFlush ==
    \A r \in Requests :
        /\ \A i \in 1..Len(chunks[r]) : chunks[r][i] # <<>>
        /\ ChunkerReturned(r) =>
              /\ (SplitSentences(req[r].txt) = <<>>) => chunks[r] = <<>>
              /\ current_chunk[r] # <<>> =>
                    /\ chunks[r] # <<>>
                    /\ chunks[r][Len(chunks[r])] = current_chunk[r]

\* the chunker returned two chunks, the second being the accumulator that
\* was left after the last sentence
C12_Witness ==
    /\ ChunkerReturned(1)
    /\ Len(chunks[1]) = 2
    /\ current_chunk[1] # <<>>
    /\ chunks[1][2] = current_chunk[1]

-----------------------------------------------------------------------------
(* Claims about one synthesis request (checked under SpecSeq) *)

ContextMargin == 12

\* the model's maximum context length: the budget of 500 plus its margin of 12
MaxContextLength == ChunkBudget + ContextMargin

HandedToInference(r) == pc[r] \in {"s_model", "s_infer", "s_arm"}

\* C4: the token sequence handed to inference (sentinel, silence tokens,
\* chunk tokens, sentinel) is never longer than the model's context length,
\* whatever the language code and initial_silence.
C4_InferenceInputFitsContext ==
    \A r \in Requests :
        HandedToInference(r) => Len(infer_in[r].tokens) <= MaxContextLength

\* C5: the style lookup never aborts the request and reads a vector inside
\* the table, also for token counts at or above the table length.
C5_StyleLookupNeverAborts ==
    \A r \in Requests :
        /\ pc[r] # "panicked"
        /\ HandedToInference(r) => infer_in[r].style_len <= StyleTableLen - 1

\* what tts_raw_audio hands to infer for a chunk
InferInputFor(r, chunk) ==
    LET tokens == InsertSilence(
                      tokenize(PhonemesOf(chunk, req[r].lan)),
                      req[r].initial_silence)
    IN [tokens |-> PadTokens(tokens), style_name |-> req[r].style_name,
        style_len |-> Len(tokens)]

StreamEvents == <<"phonemize", "infer", "emit">>

\* C6: in streaming synthesis the i-th handler invocation carries the audio
\* of the i-th chunk; no chunk is skipped, repeated or reordered; and chunk
\* i is emitted before chunk i+1 is phonemized or inferred (the calls of a
\* request are phonemize 1, infer 1, emit 1, phonemize 2, infer 2, emit 2, ...).
C6_StreamingInChunkOrder ==
    \A r \in Requests :
        req[r].streaming =>
            /\ Len(handler[r]) <= Len(chunks[r])
            /\ \A i \in 1..Len(handler[r]) :
                  handler[r][i] = InferAudio(InferInputFor(r, chunks[r][i]))
            /\ \A k \in 1..Len(hist[r]) :
                  hist[r][k] = <<StreamEvents[((k - 1) % 3) + 1], ((k - 1) \div 3) + 1>>
            /\ (pc[r] = "done" /\ result[r].kind = "Ok") =>
                  Len(handler[r]) = Len(chunks[r])

\* a streaming request of three chunks returned Ok after three emissions
C6_Witness ==
    /\ req[1].streaming
    /\ pc[1] = "done"
    /\ result[1].kind = "Ok"
    /\ Len(chunks[1]) = 3
    /\ Len(handler[1]) = 3

InferenceFailed(r) == pc[r] \in {"s_arm", "done"} /\ infer_out[r] # <<>> /\ infer_out[r].kind = "Err"

\* C7 as stated: when inference fails for a chunk the request ends with an
\* error and the caller has received no audio: no samples are returned
\* (batch) and nothing was delivered to the chunk handler (streaming).
C7_NoPartialAudio ==
    \A r \in Requests :
        (InferenceFailed(r) /\ pc[r] = "done") =>
            /\ result[r].kind = "Err"
            /\ "value" \notin DOMAIN result[r]
            /\ handler[r] = <<>>

\* C7 amended: when inference fails for chunk i the request ends with an
\* error; in batch mode no samples are returned; in streaming mode the
\* handler has received the audio of the chunks before i, and of no other.
C7_NoAudioFromFailedChunkOn ==
    \A r \in Requests :
        (InferenceFailed(r) /\ pc[r] = "done") =>
            /\ result[r] = ChunkFailedErr(infer_out[r].error)
            /\ "value" \notin DOMAIN result[r]
            /\ ~req[r].streaming => handler[r] = <<>>
            /\ req[r].streaming =>
                  /\ Len(handler[r]) = idx[r] - 1
                  /\ \A i \in 1..Len(handler[r]) :
                        handler[r][i] = InferAudio(InferInputFor(r, chunks[r][i]))

\* inference failed for the second chunk of a streaming request, after the
\* first chunk was delivered
C7_Witness ==
    /\ InferenceFailed(1)
    /\ pc[1] = "done"
    /\ req[1].streaming
    /\ idx[1] = 2
    /\ Len(handler[1]) = 1

\* C8 as stated: a phonemizer failure is never a hard failure; at every
\* call site it counts as an empty phoneme string and the request continues.
C8_PhonemizerFailureNeverFatal ==
    \A r \in Requests : result[r] # PhonemizeErr

RECURSIVE JoinSentences(_)
JoinSentences(ss) ==
    IF Len(ss) = 1 THEN FormatSentence(Head(ss))
    ELSE JoinSpace(JoinSentences(SubSeq(ss, 1, Len(ss) - 1)),
                   FormatSentence(ss[Len(ss)]))

InSynthesisLoop(r) ==
    pc[r] \in {"s_loop", "s_ph", "s_model", "s_infer", "s_arm", "done", "panicked"}

\* C8 amended: in the chunker a failed phonemization counts as an empty
\* phoneme string (zero tokens, so every sentence joins the accumulator)
\* and chunking continues; in per-chunk synthesis, batch and streaming, a
\* failed phonemization ends the request with the phonemizer's error,
\* before any inference and with no audio delivered.
C8_FailureFatalOnlyInSynthesis ==
    \A r \in Requests :
        /\ ("en" \notin espeak_voices /\ InSynthesisLoop(r)) =>
              chunks[r] = IF SplitSentences(req[r].txt) = <<>> THEN <<>>
                          ELSE <<JoinSentences(SplitSentences(req[r].txt))>>
        /\ (req[r].lan \notin espeak_voices /\ InSynthesisLoop(r)) =>
              /\ pc[r] \in {"s_loop", "s_ph", "done"}
              /\ handler[r] = <<>>
              /\ \A k \in 1..Len(hist[r]) : hist[r][k] = <<"phonemize", 1>>
              /\ pc[r] = "done" =>
                    result[r] = IF chunks[r] = <<>>
                                THEN Ok(<<>>) ELSE PhonemizeErr

\* the chunker measured with a failing phonemizer and returned one chunk of
\* two sentences, and the request then ended with the phonemizer's error
C8_Witness ==
    /\ "en" \notin espeak_voices
    /\ req[1].lan = "en"
    /\ Len(SplitSentences(req[1].txt)) = 2
    /\ Len(chunks[1]) = 1
    /\ pc[1] = "done"
    /\ result[1] = PhonemizeErr

UnknownSingleStyle(r) ==
    /\ pc[r] # "idle"
    /\ ~Contains(req[r].style_name, "+")
    /\ ~StyleKnown(req[r].style_name)

NoInferenceNoAudio(r) ==
    /\ pc[r] \notin {"s_model", "s_infer", "s_arm"}
    /\ \A k \in 1..Len(hist[r]) : hist[r][k][1] = "phonemize"
    /\ handler[r] = <<>>
    /\ final_audio[r] = <<>>

\* C9 as stated: for a style string without '+' whose name is not in the
\* style table, mix_styles returns VoiceNotFound for every token count, and
\* a request using that style ends with that error, without invoking
\* inference and without returning or emitting audio.
C9_UnknownVoiceEndsRequest ==
    \A r \in Requests :
        UnknownSingleStyle(r) =>
            /\ \A n \in 0..(StyleTableLen + 1) :
                  mix_styles(req[r].style_name, n) = VoiceNotFoundErr(req[r].style_name)
            /\ NoInferenceNoAudio(r)
            /\ pc[r] = "done" => result[r] = VoiceNotFoundErr(req[r].style_name)

\* C9 amended: for such a style mix_styles returns VoiceNotFound for every
\* token count, and a request using it never invokes inference and never
\* returns or emits audio samples; it ends with VoiceNotFound when its first
\* chunk has been phonemized, with the phonemizer's error when that
\* phonemization fails, and with an empty success when the text yields no
\* chunk.
C9_UnknownVoiceNeverInfers ==
    \A r \in Requests :
        UnknownSingleStyle(r) =>
            /\ \A n \in 0..(StyleTableLen + 1) :
                  mix_styles(req[r].style_name, n) = VoiceNotFoundErr(req[r].style_name)
            /\ NoInferenceNoAudio(r)
            /\ pc[r] # "panicked"
            /\ pc[r] = "done" =>
                  result[r] = IF chunks[r] = <<>> THEN Ok(<<>>)
                              ELSE IF req[r].lan \notin espeak_voices THEN PhonemizeErr
                              ELSE VoiceNotFoundErr(req[r].style_name)

\* a request of two chunks with an unknown voice ended with VoiceNotFound
C9_Witness ==
    /\ UnknownSingleStyle(1)
    /\ Len(chunks[1]) = 2
    /\ pc[1] = "done"
    /\ result[1] = VoiceNotFoundErr(req[1].style_name)

\* the inference outputs of the chunks cs of request r, one after the other
RECURSIVE ChunkOutputs(_, _)
ChunkOutputs(r, cs) ==
    IF cs = <<>> THEN <<>>
    ELSE InferAudio(InferInputFor(r, Head(cs))) \o ChunkOutputs(r, Tail(cs))

RECURSIVE SumOfLengths(_, _)
SumOfLengths(r, cs) ==
    IF cs = <<>> THEN 0
    ELSE Len(InferAudio(InferInputFor(r, Head(cs)))) + SumOfLengths(r, Tail(cs))

\* C15: when batch synthesis succeeds the returned buffer is the
\* concatenation of the per-chunk inference outputs in chunk order; its
\* length is the sum of the lengths of the chunk outputs.
C15_BatchAudioIsConcatenation ==
    \A r \in Requests :
        (pc[r] = "done" /\ ~req[r].streaming /\ result[r].kind = "Ok") =>
            /\ result[r].value = ChunkOutputs(r, chunks[r])
            /\ Len(result[r].value) = SumOfLengths(r, chunks[r])

\* a batch request of three chunks with different outputs succeeded
C15_Witness ==
    /\ pc[1] = "done"
    /\ ~req[1].streaming
    /\ result[1].kind = "Ok"
    /\ Len(chunks[1]) = 3
    /\ InferAudio(InferInputFor(1, chunks[1][1])) #
           InferAudio(InferInputFor(1, chunks[1][2]))
    /\ Len(result[1].value) >= 3

\* C16: when inference fails for a chunk, the error returned to the caller
\* carries the text of the failing chunk.
C16_ErrorCarriesChunkText ==
    \A r \in Requests :
        (InferenceFailed(r) /\ pc[r] = "done") =>
            /\ result[r].kind = "Err"
            /\ "text" \in DOMAIN result[r]
            /\ result[r].text = chunks[r][idx[r]]

\* C17: for every chunk, batch and streaming, the token sequence passed to
\* inference is one sentinel 0, then initial_silence copies of the silence
\* token 30 (none when absent), then the tokens of the chunk's phoneme
\* string in order, then one sentinel 0; and the style passed with it is
\* the one resolved with the token count before the sentinels are added.
C17_InferenceInputLayout ==
    \A r \in Requests :
        HandedToInference(r) =>
            LET n == IF req[r].initial_silence = <<>> THEN 0
                     ELSE req[r].initial_silence[1]
                ph == PhonemesOf(chunks[r][idx[r]], req[r].lan)
                known == SelectSeq(ph, LAMBDA c : c \in DOMAIN VOCAB)
                toks == infer_in[r].tokens
            IN /\ Len(toks) = n + Len(known) + 2
               /\ toks[1] = 0
               /\ toks[Len(toks)] = 0
               /\ \A i \in 1..n : toks[1 + i] = 30
               /\ \A i \in 1..Len(known) : toks[1 + n + i] = VOCAB[known[i]]
               /\ infer_in[r].styles =
                     mix_styles(req[r].style_name, Len(toks) - 2).styles

\* a streaming request hands to inference a chunk of several tokens behind
\* eleven silence tokens
C17_Witness ==
    /\ HandedToInference(1)
    /\ req[1].streaming
    /\ req[1].initial_silence = <<11>>
    /\ Len(infer_in[1].tokens) > 11 + 2 + 1
    /\ infer_in[1].tokens[13] # 30

\* C18: in streaming synthesis, once the chunk handler has returned an
\* error for chunk i the request has ended with that error: chunk i was
\* phonemized and inferred to completion and handed to the handler, and no
\* later chunk is phonemized or inferred and the handler is not invoked
\* again.
C18_HandlerErrorEndsStream ==
    \A r \in Requests :
        callback_ret[r] = "Err" =>
            /\ req[r].streaming
            /\ pc[r] = "done"
            /\ result[r] = CallbackErr
            /\ infer_out[r] = Ok(InferAudio(InferInputFor(r, chunks[r][idx[r]])))
            /\ Len(handler[r]) = idx[r]
            /\ handler[r][idx[r]] = infer_out[r].value
            /\ Len(hist[r]) = 3 * idx[r]
            /\ hist[r][Len(hist[r])] = <<"emit", idx[r]>>

\* the handler returned an error for the first of three chunks
C18_Witness ==
    /\ callback_ret[1] = "Err"
    /\ Len(chunks[1]) = 3
    /\ idx[1] = 1
    /\ pc[1] = "done"

-----------------------------------------------------------------------------
(* One request at a time, over every combination of arguments              *)

SynthTexts ==
    { <<".", ".", ".">>, <<"a", ".">>, <<"a", " ", "o", "!">>,
      <<"g", ".", "b">>,
      <<"W", " ", "W", ".">>, <<"W", " ", "W", ".", "a">>,
      <<"W", " ", "W", " ", "W">>, <<"a", ".", "W", " ", "W", " ", "b">>,
      <<"W", "W", "W">> }

SynthStyles ==
    { <<"a">>, <<"z">>, <<"a", ".", "5", "+", "b", ".", "5">>,
      <<"a", ".", "5", "+", "z", ".", "5">>, <<"z", ".", "5", "+", "z", ".", "5">> }

SilenceOptions == { <<>>, <<0>>, <<11>> }

\* tts_raw_audio / tts_raw_audio_streaming is called: the chunker is entered
\* with the budget of 500
SeqCall(r) ==
    /\ pc[r] = "idle"
    /\ \E txt \in SynthTexts, lan \in Langs, style_name \in SynthStyles,
          initial_silence \in SilenceOptions, streaming \in BOOLEAN,
          inst \in Instances :
          req' = [req EXCEPT ![r] =
                     [txt |-> txt, lan |-> lan, style_name |-> style_name,
                      initial_silence |-> initial_silence, streaming |-> streaming,
                      inst |-> inst, max_tokens |-> ChunkBudget]]
    /\ pc' = [pc EXCEPT ![r] = "split"]
    /\ UNCHANGED <<espeak_mutex, model_mutex, envVars, chunkerVars, chunks,
                   synthVars, result, hist>>

NextSeq == SeqCall(1) \/ SynthStep(1)

SpecSeq == Init /\ [][NextSeq]_vars

-----------------------------------------------------------------------------
(* mix_styles alone: every style string of up to MaxComponents components   *)
(* and token counts on both sides of the table length                       *)

MaxComponents == 2

MixComponents ==
    { <<"a", ".", "5">>, <<"b", ".", "5">>, <<"z", ".", "5">>,
      <<"b", ".", "1", "5">>, <<"a", ".", "1", ".", "5">>, <<"a", ".", "x">>,
      <<"b">> }

RECURSIVE Blends(_)
Blends(n) ==
    IF n = 1 THEN MixComponents
    ELSE {b \o <<"+">> \o c : b \in Blends(n - 1), c \in MixComponents}

MixStyleNames ==
    {<<"a">>, <<"b">>, <<"z">>} \cup UNION {Blends(n) : n \in 2..MaxComponents}

MixTokenCounts ==
    {0, 1, StyleTableLen - 1, StyleTableLen, StyleTableLen + MaxComponents}

MixCall ==
    /\ mix_args = <<>>
    /\ \E style_name \in MixStyleNames, tokens_len \in MixTokenCounts :
          mix_args' = [style_name |-> style_name, tokens_len |-> tokens_len]
    /\ UNCHANGED <<espeak_mutex, model_mutex, espeak_voices, pc, req, chunkerVars,
                   chunks, synthVars, result, hist, mix_ret, callback_ret,
                   speech_args, speech_ret, tok_args, tok_ret>>

MixReturn ==
    /\ mix_args # <<>>
    /\ mix_ret = <<>>
    /\ mix_ret' = mix_styles(mix_args.style_name, mix_args.tokens_len)
    /\ UNCHANGED <<espeak_mutex, model_mutex, espeak_voices, pc, req, chunkerVars,
                   chunks, synthVars, result, hist, mix_args, callback_ret,
                   speech_args, speech_ret, tok_args, tok_ret>>

NextMix == MixCall \/ MixReturn

SpecMix == Init /\ [][NextMix]_vars

\* the components of a blend that carry a weight: name '.' number
HasWeight(c) ==
    /\ split_once(c, ".") # <<>>
    /\ parse_f32(split_once(c, ".")[1][2]).ok

NameOf(c) == split_once(c, ".")[1][1]

\* weight in thousandths: the number after the first '.', times 0.1
WeightOf(c) == parse_f32(split_once(c, ".")[1][2]).hundredths

\* the (name, weight) of every weighted component whose name is in the table
Contributing(style_name) ==
    LET comps == SplitBy(style_name, {"+"})
    IN {<<i, NameOf(comps[i]), WeightOf(comps[i])>> :
           i \in {k \in 1..Len(comps) :
                     HasWeight(comps[k]) /\ NameOf(comps[k]) \in VoiceNames}}

RECURSIVE SumOver(_, _, _)
SumOver(S, n, j) ==
    IF S = {} THEN 0
    ELSE LET c == CHOOSE x \in S : TRUE
         IN ((c[3] * styles[c[2]][n][j]) \div 1000) + SumOver(S \ {c}, n, j)

WeightedSum(style_name, n) ==
    LET S == Contributing(style_name)
    IN [j \in 1..StyleDim |-> SumOver(S, n, j)]

\* C10: for a style string containing '+', mix_styles raises no error for
\* an unknown name, and the vector it returns equals, in each of the 256
\* dimensions, the sum of weight * table[name][index] over exactly the
\* weighted components whose name is in the style table; the weights are
\* not normalized.
C10_BlendIsWeightedSum ==
    (mix_ret # <<>> /\ Contains(mix_args.style_name, "+")) =>
        /\ mix_ret.kind # "Err"
        /\ StyleIndexInBounds(mix_args.tokens_len) => mix_ret.kind = "Ok"
        /\ mix_ret.kind = "Ok" =>
              /\ Len(mix_ret.styles) = 1
              /\ Len(mix_ret.styles[1]) = StyleDim
              /\ mix_ret.styles[1] =
                    WeightedSum(mix_args.style_name, mix_args.tokens_len)

\* mix_styles("a.5+z.5", 1) returned 0.5 * table[a][1], a blend whose
\* weights do not add up to 1
C10_Witness ==
    /\ mix_args # <<>>
    /\ mix_args.style_name = <<"a", ".", "5", "+", "z", ".", "5">>
    /\ mix_args.tokens_len = 1
    /\ mix_ret # <<>>
    /\ mix_ret.kind = "Ok"
    /\ \A j \in 1..StyleDim : 2 * mix_ret.styles[1][j] = styles[<<"a">>][1][j]

\* name.d with d one decimal digit
SingleDigitForm(c) ==
    /\ Len(c) >= 3
    /\ c[Len(c)] \in Digits
    /\ c[Len(c) - 1] = "."
    /\ \A i \in 1..(Len(c) - 2) : c[i] # "."

\* the call made was mix_styles(c + "+z.5", n): c blended with an unknown name
BlendedWithUnknown(c) ==
    /\ mix_args # <<>>
    /\ mix_args.style_name = c \o <<"+", "z", ".", "5">>
    /\ mix_ret # <<>>
    /\ mix_ret.kind = "Ok"

\* table[name][n] scaled by a weight given in thousandths
Scaled(name, n, thousandths) ==
    [j \in 1..StyleDim |-> (thousandths * styles[name][n][j]) \div 1000]

\* C19 as stated: a component contributes only if it has the form name.d
\* with d a single decimal digit; a component of any other form (a
\* multi-digit or fractional weight, a missing weight) contributes nothing.
C19_OnlySingleDigitWeights ==
    \A c \in MixComponents :
        (BlendedWithUnknown(c) /\ ~SingleDigitForm(c)) =>
            mix_ret.styles[1] = [j \in 1..StyleDim |-> 0]

\* C19 amended: a component with a known name contributes if and only if
\* the text after its first '.' parses as a number w, and its weight is
\* then w/10: "a.5" weighs 0.5, "b.15" weighs 1.5, "a.1.5" weighs 0.15; a
\* component without '.' or with an unparsable weight contributes nothing.
C19_AnyParsableWeightCounts ==
    /\ BlendedWithUnknown(<<"a", ".", "5">>) =>
          mix_ret.styles[1] = Scaled(<<"a">>, mix_args.tokens_len, 500)
    /\ BlendedWithUnknown(<<"b", ".", "5">>) =>
          mix_ret.styles[1] = Scaled(<<"b">>, mix_args.tokens_len, 500)
    /\ BlendedWithUnknown(<<"b", ".", "1", "5">>) =>
          mix_ret.styles[1] = Scaled(<<"b">>, mix_args.tokens_len, 1500)
    /\ BlendedWithUnknown(<<"a", ".", "1", ".", "5">>) =>
          mix_ret.styles[1] = Scaled(<<"a">>, mix_args.tokens_len, 150)
    /\ BlendedWithUnknown(<<"a", ".", "x">>) =>
          mix_ret.styles[1] = [j \in 1..StyleDim |-> 0]
    /\ BlendedWithUnknown(<<"b">>) =>
          mix_ret.styles[1] = [j \in 1..StyleDim |-> 0]

\* mix_styles("b.15+z.5", 1) returned 1.5 * table[b][1]
C19_Witness ==
    /\ BlendedWithUnknown(<<"b", ".", "1", "5">>)
    /\ mix_args.tokens_len = 1
    /\ mix_ret.styles[1] = Scaled(<<"b">>, 1, 1500)
    /\ mix_ret.styles[1] # [j \in 1..StyleDim |-> 0]

-----------------------------------------------------------------------------
(* split_text_into_speech_chunks alone: every short text and word limit *)

MaxWords == 2

SpeechAlphabet == {"a", "b", " ", ",", "."}

SpeechTexts == StringsUpTo(SpeechAlphabet, MaxTextLen)

SpeechCall ==
    /\ speech_args = <<>>
    /\ \E text \in SpeechTexts, max_words \in 1..MaxWords :
          speech_args' = [text |-> text, max_words |-> max_words]
    /\ UNCHANGED <<espeak_mutex, model_mutex, espeak_voices, pc, req, chunkerVars,
                   chunks, synthVars, result, hist, mix_args, mix_ret,
                   callback_ret, speech_ret, tok_args, tok_ret>>

SpeechReturn ==
    /\ speech_args # <<>>
    /\ speech_ret = <<>>
    /\ speech_ret' = <<split_text_into_speech_chunks(speech_args.text,
                                                     speech_args.max_words)>>
    /\ UNCHANGED <<espeak_mutex, model_mutex, espeak_voices, pc, req, chunkerVars,
                   chunks, synthVars, result, hist, mix_args, mix_ret,
                   callback_ret, speech_args, tok_args, tok_ret>>

NextSpeech == SpeechCall \/ SpeechReturn

SpecSpeech == Init /\ [][NextSpeech]_vars

NoTerminator(text) == \A i \in 1..Len(text) : text[i] \notin SpeechTerminators

\* the words of a text, the appended period ignored
SpeechWords(s) ==
    split_whitespace([i \in 1..Len(s) |->
                         IF s[i] \in SpeechTerminators THEN " " ELSE s[i]])

RECURSIVE SpeechWordsOfChunks(_)
SpeechWordsOfChunks(cs) ==
    IF cs = <<>> THEN <<>>
    ELSE SpeechWords(Head(cs)) \o SpeechWordsOfChunks(Tail(cs))

\* C20: for text without '.', '!' or '?', split_text_into_speech_chunks
\* returns plain word buckets: every chunk holds at most max_words words
\* and the chunks read in order give the words of the text in their order.
C20_PlainWordBuckets ==
    (speech_ret # <<>> /\ NoTerminator(speech_args.text)) =>
        LET cs == speech_ret[1]
        IN /\ \A i \in 1..Len(cs) :
                 Len(SpeechWords(cs[i])) <= speech_args.max_words
           /\ SpeechWordsOfChunks(cs) = SpeechWords(speech_args.text)

-----------------------------------------------------------------------------
(* tokenize and tokens_to_phonemes alone *)

\* phoneme characters: two of the vocabulary and two outside it
TokAlphabet == {".", "a", "g", "H"}

\* token ids: two of the vocabulary and one outside it
TokIds == {4, 43, 999}

TokCall ==
    /\ tok_args = <<>>
    /\ \/ \E phonemes \in StringsUpTo(TokAlphabet, MaxTextLen) :
             tok_args' = [fn |-> "tokenize", arg |-> phonemes]
       \/ \E tokens \in StringsUpTo(TokIds, MaxTextLen) :
             tok_args' = [fn |-> "tokens_to_phonemes", arg |-> tokens]
    /\ UNCHANGED <<espeak_mutex, model_mutex, espeak_voices, pc, req, chunkerVars,
                   chunks, synthVars, result, hist, mix_args, mix_ret,
                   callback_ret, speech_args, speech_ret, tok_ret>>

TokReturn ==
    /\ tok_args # <<>>
    /\ tok_ret = <<>>
    /\ tok_ret' = IF tok_args.fn = "tokenize"
                  THEN <<tokenize(tok_args.arg)>>
                  ELSE <<tokens_to_phonemes(tok_args.arg)>>
    /\ UNCHANGED <<espeak_mutex, model_mutex, espeak_voices, pc, req, chunkerVars,
                   chunks, synthVars, result, hist, mix_args, mix_ret,
                   callback_ret, speech_args, speech_ret, tok_args>>

NextTok == TokCall \/ TokReturn

SpecTok == Init /\ [][NextTok]_vars

\* the ids of the in-vocabulary characters of s, one by one from the left
RECURSIVE IdsInOrder(_)
IdsInOrder(s) ==
    IF s = <<>> THEN <<>>
    ELSE (IF Head(s) \in DOMAIN VOCAB THEN <<VOCAB[Head(s)]>> ELSE <<>>)
             \o IdsInOrder(Tail(s))

\* C21: tokenize gives one token id for each character of the phoneme
\* string that is in the vocabulary, in input order, and drops the others,
\* so the output length is the number of in-vocabulary characters; the
\* empty string gives no tokens and "..." gives 3 tokens; and
\* tokens_to_phonemes maps the empty token list to the empty string.
C21_TokenizeKeepsKnownInOrder ==
    tok_ret # <<>> =>
        /\ tok_args.fn = "tokenize" =>
              /\ tok_ret[1] = IdsInOrder(tok_args.arg)
              /\ Len(tok_ret[1]) =
                    Cardinality({i \in 1..Len(tok_args.arg) :
                                    tok_args.arg[i] \in DOMAIN VOCAB})
              /\ tok_args.arg = <<>> => tok_ret[1] = <<>>
              /\ tok_args.arg = <<".", ".", ".">> => Len(tok_ret[1]) = 3
        /\ (tok_args.fn = "tokens_to_phonemes" /\ tok_args.arg = <<>>) =>
              tok_ret[1] = <<>>

\* tokenize returned two tokens for a string of three characters, one of
\* them outside the vocabulary
C21_Witness ==
    /\ tok_args # <<>>
    /\ tok_args.fn = "tokenize"
    /\ tok_args.arg = <<".", "g", "a">>
    /\ tok_ret = << <<4, 43>> >>

-----------------------------------------------------------------------------
(* Concurrent requests on the engine instances of server mode *)

\* the requests served: a batch request of two short sentences and a
\* streaming request of one over-long sentence that ends in a word of more
\* tokens than the style table has entries, both with voice "a"
ConcRequests ==
    { [txt |-> <<"a", ".", "b">>, streaming |-> FALSE],
      [txt |-> <<"W", " ", "W", " ", "W", "W", "W">>, streaming |-> TRUE] }

\* the instances are interchangeable: request r is routed to one of the
\* first r instances
RoutableInstances(r) == {i \in Instances : i <= r}

\* a request arrives, is routed to one instance and enters tts_raw_audio or
\* tts_raw_audio_streaming there
ConcCall(r) ==
    /\ pc[r] = "idle"
    /\ \E shape \in ConcRequests, inst \in RoutableInstances(r) :
          req' = [req EXCEPT ![r] =
                     [txt |-> shape.txt, lan |-> "en-us", style_name |-> <<"a">>,
                      initial_silence |-> <<>>, streaming |-> shape.streaming,
                      inst |-> inst, max_tokens |-> ChunkBudget]]
    /\ pc' = [pc EXCEPT ![r] = "split"]
    /\ UNCHANGED <<espeak_mutex, model_mutex, envVars, chunkerVars, chunks,
                   synthVars, result, hist>>

Next == \E r \in Requests : ConcCall(r) \/ SynthStep(r)

Spec == Init /\ [][Next]_vars

InPhonemizer(r) == pc[r] \in {"c_ph_sentence", "c_ph_word", "c_ph_combined", "s_ph"}

WaitsForPhonemizer(r) ==
    \/ pc[r] = "c_loop" /\ sentences[r] # <<>>
    \/ pc[r] = "c_word_loop" /\ words[r] # <<>>
    \/ pc[r] = "c_combined"
    \/ pc[r] = "s_loop" /\ idx[r] <= Len(chunks[r])

\* C1: at most one execution context is inside a phonemizer call, and each
\* call (the chunker's sentence, combined-text and word-level measurements,
\* the per-chunk phonemization of batch and streaming synthesis) runs while
\* its caller holds the process-wide phonemizer lock.
C1_PhonemizerSerialized ==
    /\ Cardinality({r \in Requests : InPhonemizer(r)}) <= 1
    /\ \A r \in Requests : InPhonemizer(r) => espeak_mutex = r

\* a request on one instance is inside the word-level measurement while a
\* request on another instance waits at the per-chunk phonemization
C1_Witness ==
    \E r, q \in Requests :
        /\ req[r].inst # req[q].inst
        /\ pc[r] = "c_ph_word"
        /\ pc[q] = "s_loop"
        /\ WaitsForPhonemizer(q)

InInference(r) == pc[r] = "s_infer"

\* C13: within one engine instance at most one inference call is in
\* progress, and every inference call is made by the holder of that
\* instance's inference lock.
C13_InferenceSerializedPerInstance ==
    /\ \A i \in Instances :
          Cardinality({r \in Requests : InInference(r) /\ req[r].inst = i}) <= 1
    /\ \A r \in Requests : InInference(r) => model_mutex[req[r].inst] = r

\* one request is inside inference on an instance while another request of
\* the same instance waits for that instance's inference lock
C13_Witness ==
    \E r, q \in Requests :
        /\ r # q
        /\ req[r].inst = req[q].inst
        /\ InInference(r)
        /\ pc[q] = "s_model"

\* C14: each instance has its own inference lock: the lock of instance i is
\* only ever held by a request running on i, and a request that is about to
\* call inference proceeds as soon as the lock of its own instance is free,
\* whatever the state of the other instances' locks (so requests on
\* different instances can be inside inference together); the phonemizer
\* lock is the one lock that requests of different instances contend for.
C14_InstancesShareOnlyPhonemizerLock ==
    /\ \A i \in Instances :
          model_mutex[i] # 0 => req[model_mutex[i]].inst = i
    /\ \A r \in Requests :
          (pc[r] = "s_model" /\ LockFree(model_mutex[req[r].inst])) =>
              ENABLED ModelLock(r)
    /\ \A r \in Requests :
          WaitsForPhonemizer(r) => (ENABLED SynthStep(r) <=> LockFree(espeak_mutex))

\* two requests on different instances are inside inference at the same time
C14_Witness ==
    \E r, q \in Requests :
        /\ req[r].inst # req[q].inst
        /\ InInference(r)
        /\ InInference(q)

-----------------------------------------------------------------------------
(* Concurrent requests under fair scheduling: every execution context that  *)
(* can take a step eventually takes one (each blocking call returns, and a  *)
(* free lock is handed to a waiter)                                         *)

SpecFair == Init /\ [][Next]_vars /\ \A r \in Requests : WF_vars(SynthStep(r))

Started(r) == pc[r] = "split"

Returned(r) == pc[r] = "done"

\* C22: under fair scheduling, with every phonemizer and inference call
\* returning, every synthesis request that starts eventually returns, with
\* audio or with an error.
C22_EveryRequestReturns == \A r \in Requests : Started(r) ~> Returned(r)

\* the lock discipline C22 rests on: no request holds the phonemizer lock
\* while it waits for or holds an inference lock, and a request that has
\* returned holds neither lock
C22_LocksNeverNested ==
    \A r \in Requests :
        /\ espeak_mutex = r => pc[r] \notin {"s_model", "s_infer", "s_arm"}
        /\ (\E i \in Instances : model_mutex[i] = r) => ~InPhonemizer(r)
        /\ Returned(r) =>
              /\ espeak_mutex # r
              /\ \A i \in Instances : model_mutex[i] # r

====
